---- MODULE Spec2Model ----
(***************************************************************************)
(* Model of the data cleaner of excel-data-cleaner-officejs                *)
(* (utils/dataCleaner.js): the pure cleaning pipeline cleanData and the    *)
(* functions it is made of, over JavaScript cell values.                   *)
(*                                                                         *)
(* A JavaScript string is a sequence of characters, a character a          *)
(* one-token string ("e_acute" and "E_ACUTE" stand for U+00E9 and U+00C9). *)
(* A cell is a record [t, s, n]: t is the cell's typeof-like tag, s the    *)
(* characters of a string (or the name of a non-finite number), n the      *)
(* value of a finite number or boolean.                                    *)
(***************************************************************************)
EXTENDS Integers, Sequences, FiniteSets, TLC

VARIABLES
    data,        \* the argument of the call: [kind, rows]
    pc,          \* "ready" | "returned" | "threw"
    cleaned,     \* the successive values of cleanData's local `cleaned`
    result,      \* what cleanData returned (has = FALSE: nothing returned)
    pass,        \* 1: first call; 2: the call on the first call's cleanedData
    firstResult, \* the result of the first call, kept for the second
    uniqueRows,  \* what a direct call of removeDuplicateRows returned
    cellOut,     \* what a direct call of a cell-level function returned
    sheet,       \* the values of the selected range of the worksheet
    h,           \* the run of handleCleanData
    ai           \* the call of analyzeData

cleanerVars == <<data, pc, cleaned, result, pass, firstResult, uniqueRows, cellOut>>

vars == <<data, pc, cleaned, result, pass, firstResult, uniqueRows, cellOut,
          sheet, h, ai>>

----------------------------------------------------------------------------
(* Bounds of the model *)

MaxRows == 2        \* rows of an input grid of cleanData
MaxCells == 4       \* cells of an input grid of cleanData, all rows together
MaxDedupRows == 3   \* rows of an input grid of a direct removeDuplicateRows call
MaxDedupCells == 3  \* cells of that grid, all rows together
MaxLen == 3         \* characters of a string given to a cell-level function
MaxFillRows == 3    \* rows of an input grid of cleanData, few kinds of cells
MaxFillCells == 6   \* cells of that grid, all rows together

----------------------------------------------------------------------------
(* Characters *)

AsciiLower == {"a", "n"}
AsciiUpper == {"A", "N"}
Digits == {"0", "1", "2", "3", "4", "5", "6", "7", "8", "9"}

\* String.prototype.toLowerCase, per character (Unicode-aware).
toLowerCaseChar(c) ==
    CASE c = "A" -> "a"
      [] c = "N" -> "n"
      [] c = "E_ACUTE" -> "e_acute"
      [] OTHER -> c

\* String.prototype.toUpperCase, per character (Unicode-aware).
toUpperCaseChar(c) ==
    CASE c = "a" -> "A"
      [] c = "n" -> "N"
      [] c = "e_acute" -> "E_ACUTE"
      [] OTHER -> c

\* The regular expression class \w without the u flag: [A-Za-z0-9_].
IsWordChar(c) == c \in AsciiLower \cup AsciiUpper \cup Digits \cup {"_"}

\* What String.prototype.trim strips.
IsWhiteSpace(c) == c \in {" ", "\t"}

----------------------------------------------------------------------------
(* Cells *)

Str(s) == [t |-> "string", s |-> s, n |-> 0]
Num(n) == [t |-> "number", s |-> <<>>, n |-> n]
NaN == [t |-> "number", s |-> <<"NaN">>, n |-> 0]
Bool(b) == [t |-> "boolean", s |-> <<>>, n |-> IF b THEN 1 ELSE 0]
Null == [t |-> "null", s |-> <<>>, n |-> 0]
Undefined == [t |-> "undefined", s |-> <<>>, n |-> 0]

\* A faulty variant: the placeholder in lower case.
EMPTY_CELL_REPLACEMENT_lower == Str(<<"n", "/", "a">>)

EMPTY_CELL_REPLACEMENT == Str(<<"N", "/", "A">>)

----------------------------------------------------------------------------
(* Strings *)

RECURSIVE TrimStart(_)
TrimStart(s) ==
    IF s # <<>> /\ IsWhiteSpace(Head(s)) THEN TrimStart(Tail(s)) ELSE s

RECURSIVE TrimEnd(_)
TrimEnd(s) ==
    IF s # <<>> /\ IsWhiteSpace(s[Len(s)])
    THEN TrimEnd(SubSeq(s, 1, Len(s) - 1))
    ELSE s

\* String.prototype.trim
Trim(s) == TrimEnd(TrimStart(s))

toLowerCase(s) == [i \in 1..Len(s) |-> toLowerCaseChar(s[i])]

\* A faulty variant: only the first character of the string is upper-cased.
UpperCaseWordStarts_firstOnly(s) ==
    [i \in 1..Len(s) |-> IF i = 1 THEN toUpperCaseChar(s[i]) ELSE s[i]]

\* s.replace(/\b\w/g, (char) => char.toUpperCase()): every word character
\* that follows the start of the string or a non-word character, in upper case.
UpperCaseWordStarts(s) ==
    [i \in 1..Len(s) |->
        IF IsWordChar(s[i]) /\ (i = 1 \/ ~IsWordChar(s[i - 1]))
        THEN toUpperCaseChar(s[i])
        ELSE s[i]]

toTitleCase(text) ==
    IF text.t # "string" \/ text.s = <<>>
    THEN text
    ELSE Str(UpperCaseWordStarts(toLowerCase(text.s)))

trimWhitespace(cell) ==
    IF cell.t = "string" THEN Str(Trim(cell.s)) ELSE cell

----------------------------------------------------------------------------
(* Grids *)

normalizeCasingCell(cell) ==
    IF cell.t = "string" /\ Len(cell.s) > 0 THEN toTitleCase(cell) ELSE cell

normalizeCasingRow(row) == [j \in 1..Len(row) |-> normalizeCasingCell(row[j])]

normalizeCasing(grid) == [i \in 1..Len(grid) |-> normalizeCasingRow(grid[i])]

trimRow(row) == [j \in 1..Len(row) |-> trimWhitespace(row[j])]

trimAllWhitespace(grid) == [i \in 1..Len(grid) |-> trimRow(grid[i])]

----------------------------------------------------------------------------
(* JSON.stringify of a row *)

DigitChars == <<"0", "1", "2", "3", "4", "5", "6", "7", "8", "9">>

RECURSIVE DecimalDigits(_)
DecimalDigits(n) ==
    IF n < 10
    THEN <<DigitChars[n + 1]>>
    ELSE Append(DecimalDigits(n \div 10), DigitChars[(n % 10) + 1])

\* Number::toString of a finite integer.
NumberToString(n) ==
    IF n < 0 THEN <<"-">> \o DecimalDigits(0 - n) ELSE DecimalDigits(n)

\* JSON's QuoteJSONString, per character.
QuoteChar(c) ==
    CASE c = "\"" -> <<"\\", "\"">>
      [] c = "\\" -> <<"\\", "\\">>
      [] c = "\t" -> <<"\\", "t">>
      [] OTHER -> <<c>>

RECURSIVE QuoteChars(_)
QuoteChars(s) ==
    IF s = <<>> THEN <<>> ELSE QuoteChar(Head(s)) \o QuoteChars(Tail(s))

JSONNull == <<"n", "u", "l", "l">>

\* JSON.stringify of an array element: a string is quoted, a finite number is
\* written in decimal, a non-finite number is null, null is null, and
\* undefined inside an array is null as well.
JSONstringifyCell(cell) ==
    CASE cell.t = "string" -> <<"\"">> \o QuoteChars(cell.s) \o <<"\"">>
      [] cell.t = "number" ->
            IF cell.s = <<>> THEN NumberToString(cell.n) ELSE JSONNull
      [] cell.t = "boolean" ->
            IF cell.n = 1 THEN <<"t", "r", "u", "e">>
                          ELSE <<"f", "a", "l", "s", "e">>
      [] OTHER -> JSONNull

RECURSIVE JoinCells(_)
JoinCells(row) ==
    IF row = <<>> THEN <<>>
    ELSE IF Len(row) = 1 THEN JSONstringifyCell(row[1])
    ELSE JSONstringifyCell(row[1]) \o <<",">> \o JoinCells(Tail(row))

JSONstringify(row) == <<"[">> \o JoinCells(row) \o <<"]">>

----------------------------------------------------------------------------
(* The stages of the pipeline *)

\* A faulty variant of the loop: seen.add(rowString) is forgotten.
RECURSIVE DedupLoop_noAdd(_, _, _, _)
DedupLoop_noAdd(grid, i, seen, unique) ==
    IF i > Len(grid)
    THEN unique
    ELSE IF JSONstringify(grid[i]) \notin seen
         THEN DedupLoop_noAdd(grid, i + 1, seen, Append(unique, grid[i]))
         ELSE DedupLoop_noAdd(grid, i + 1, seen, unique)

\* The for-of loop of removeDuplicateRows from row i on, with the Set `seen`
\* and the array `unique` built so far.
RECURSIVE DedupLoop(_, _, _, _)
DedupLoop(grid, i, seen, unique) ==
    IF i > Len(grid)
    THEN unique
    ELSE LET rowString == JSONstringify(grid[i]) IN
         IF rowString \notin seen
         THEN DedupLoop(grid, i + 1, seen \cup {rowString}, Append(unique, grid[i]))
         ELSE DedupLoop(grid, i + 1, seen, unique)

\* A faulty variant: the last occurrence of a row is kept, not the first.
removeDuplicateRows_keepLast(grid) ==
    LET Last(k) == \A j \in (k + 1)..Len(grid) :
                        JSONstringify(grid[j]) # JSONstringify(grid[k])
        idx == SelectSeq([i \in 1..Len(grid) |-> i], Last)
    IN [n \in 1..Len(idx) |-> grid[idx[n]]]

removeDuplicateRows(grid) == DedupLoop(grid, 1, {}, <<>>)

IsEmptyCell(cell) ==
    \/ cell.t = "null"
    \/ cell.t = "undefined"
    \/ cell.t = "string" /\ Len(Trim(cell.s)) = 0

isEmptyRow(row) == \A i \in 1..Len(row) : IsEmptyCell(row[i])

IsNotEmptyRow(row) == ~isEmptyRow(row)

removeEmptyRows(grid) == SelectSeq(grid, IsNotEmptyRow)

\* A faulty variant: only null and undefined are replaced.
replaceEmptyCell_nullOnly(cell) ==
    IF cell.t = "null" \/ cell.t = "undefined"
    THEN EMPTY_CELL_REPLACEMENT
    ELSE cell

replaceEmptyCell(cell) ==
    IF cell.t = "null" \/ cell.t = "undefined"
    THEN EMPTY_CELL_REPLACEMENT
    ELSE IF cell.t = "string" /\ Len(Trim(cell.s)) = 0
    THEN EMPTY_CELL_REPLACEMENT
    ELSE cell

replaceEmptyCellsRow(row) == [j \in 1..Len(row) |-> replaceEmptyCell(row[j])]

replaceEmptyCells(grid) == [i \in 1..Len(grid) |-> replaceEmptyCellsRow(grid[i])]

\* The loop of detectHeaderRow from the zero-based index i on.
RECURSIVE HeaderLoop(_, _)
HeaderLoop(grid, i) ==
    IF i < Len(grid)
    THEN IF ~isEmptyRow(grid[i + 1]) THEN i ELSE HeaderLoop(grid, i + 1)
    ELSE 0

\* A faulty variant: the index is one-based.
detectHeaderRow_oneBased(grid) == HeaderLoop(grid, 0) + 1

detectHeaderRow(grid) == HeaderLoop(grid, 0)

----------------------------------------------------------------------------
(* cleanData *)

Arr(rows) == [kind |-> "array", rows |-> rows]
NullData == [kind |-> "null", rows |-> <<>>]
UndefinedData == [kind |-> "undefined", rows |-> <<>>]

\* A faulty variant: the zero-row check is missing.
IsInvalidInput_absentOnly(d) == d.kind # "array"

\* !data || data.length === 0
IsInvalidInput(d) == d.kind # "array" \/ Len(d.rows) = 0

\* A faulty variant: duplicates are removed before trimming and casing.
CleanSteps_dedupFirst(rows) ==
    LET deduped == removeDuplicateRows(rows)
        trimmed == trimAllWhitespace(deduped)
        cased == normalizeCasing(trimmed)
        nonEmpty == removeEmptyRows(cased)
        replaced == replaceEmptyCells(nonEmpty)
    IN [trimmed |-> trimmed, cased |-> cased, deduped |-> cased,
        nonEmpty |-> nonEmpty, replaced |-> replaced]

\* The values the local `cleaned` takes, step 1 to step 5.
CleanSteps(rows) ==
    LET trimmed == trimAllWhitespace(rows)
        cased == normalizeCasing(trimmed)
        deduped == removeDuplicateRows(cased)
        nonEmpty == removeEmptyRows(deduped)
        replaced == replaceEmptyCells(nonEmpty)
    IN [trimmed |-> trimmed, cased |-> cased, deduped |-> deduped,
        nonEmpty |-> nonEmpty, replaced |-> replaced]

NoSteps ==
    [trimmed |-> <<>>, cased |-> <<>>, deduped |-> <<>>,
     nonEmpty |-> <<>>, replaced |-> <<>>]

NoResult ==
    [has |-> FALSE, cleanedData |-> <<>>, headerRowIndex |-> 0,
     originalRowCount |-> 0, cleanedRowCount |-> 0]

\* A faulty variant: the header row is looked for before the empty rows are
\* removed.
MakeResult_headerBeforeRemoval(rows, steps) ==
    [has |-> TRUE,
     cleanedData |-> steps.replaced,
     headerRowIndex |-> detectHeaderRow(steps.deduped),
     originalRowCount |-> Len(rows),
     cleanedRowCount |-> Len(steps.replaced)]

MakeResult(rows, steps) ==
    [has |-> TRUE,
     cleanedData |-> steps.replaced,
     headerRowIndex |-> detectHeaderRow(steps.replaced),
     originalRowCount |-> Len(rows),
     cleanedRowCount |-> Len(steps.replaced)]

\* cleanData(data) throws on an absent or zero-row grid ...
CleanDataThrows ==
    /\ pc = "ready"
    /\ IsInvalidInput(data)
    /\ pc' = "threw"
    /\ UNCHANGED <<data, cleaned, result, pass, firstResult, uniqueRows, cellOut>>
    /\ UNCHANGED <<sheet, h, ai>>

\* ... and otherwise runs the six steps and returns the result.
CleanDataReturns ==
    /\ pc = "ready"
    /\ ~IsInvalidInput(data)
    /\ cleaned' = CleanSteps(data.rows)
    /\ result' = MakeResult(data.rows, cleaned')
    /\ pc' = "returned"
    /\ UNCHANGED <<data, pass, firstResult, uniqueRows, cellOut>>
    /\ UNCHANGED <<sheet, h, ai>>

\* A second call of cleanData, on the cleanedData of the first.
CleanAgain ==
    /\ pc = "returned"
    /\ pass = 1
    /\ data' = Arr(result.cleanedData)
    /\ firstResult' = result
    /\ pass' = 2
    /\ pc' = "ready"
    /\ cleaned' = NoSteps
    /\ result' = NoResult
    /\ UNCHANGED <<uniqueRows, cellOut>>
    /\ UNCHANGED <<sheet, h, ai>>

----------------------------------------------------------------------------
(* Inputs *)

RECURSIVE SumSeq(_)
SumSeq(s) == IF s = <<>> THEN 0 ELSE Head(s) + SumSeq(Tail(s))

\* The row lengths of the grids of at most maxRows rows and maxCells cells.
Shapes(maxRows, maxCells) ==
    UNION {{lens \in [1..k -> 0..maxCells] : SumSeq(lens) <= maxCells} :
            k \in 0..maxRows}

RECURSIVE GridsOfShape(_, _)
GridsOfShape(lens, cells) ==
    IF lens = <<>>
    THEN {<<>>}
    ELSE {<<row>> \o rest :
            row \in [1..Head(lens) -> cells],
            rest \in GridsOfShape(Tail(lens), cells)}

\* The cells of the grids given to cleanData.
PipelineCells ==
    {Null, Undefined, NaN,
     Str(<<" ">>), Str(<<" ", "a">>), Str(<<"A">>), Str(<<"N", "/", "A">>)}

\* The parsed JSON body of no response.
NoBody ==
    [present |-> FALSE, choices |-> "missing", message |-> FALSE,
     content |-> Undefined]

\* analyzeData not called.
IdleAI ==
    [pc |-> "idle", enabled |-> FALSE, arg |-> NullData, hasKey |-> FALSE,
     requests |-> 0, sample |-> <<>>, http |-> "none", body |-> NoBody,
     ret |-> Undefined]

\* handleCleanData not running.
IdleHandler ==
    [pc |-> "idle", disabled |-> FALSE, status |-> "none", error |-> "none",
     calls |-> <<>>, raw |-> NullData, res |-> NoResult, aiEnabled |-> FALSE,
     aiInsights |-> Null, aiNote |-> "none",
     hasCleanData |-> TRUE, hasAnalyzeData |-> TRUE]

NoSheet == [values |-> <<>>, before |-> <<>>, header |-> -1, fitted |-> FALSE]

InitCall ==
    /\ sheet = NoSheet
    /\ h = IdleHandler
    /\ ai = IdleAI
    /\ pc = "ready"
    /\ cleaned = NoSteps
    /\ result = NoResult
    /\ pass = 1
    /\ firstResult = NoResult
    /\ uniqueRows = <<>>
    /\ cellOut = Null

Init ==
    /\ \/ data \in {NullData, UndefinedData}
       \/ \E lens \in Shapes(MaxRows, MaxCells) :
            \E g \in GridsOfShape(lens, PipelineCells) : data = Arr(g)
    /\ InitCall

Next == CleanDataThrows \/ CleanDataReturns \/ CleanAgain

Spec == Init /\ [][Next]_vars

----------------------------------------------------------------------------
(* cleanData on larger grids of empty cells, placeholders and one kind of
   non-empty cell *)

FillCells == {Null, Str(<<>>), Str(<<"N", "/", "A">>), NaN}

InitFill ==
    /\ \E lens \in Shapes(MaxFillRows, MaxFillCells) :
            \E g \in GridsOfShape(lens, FillCells) : data = Arr(g)
    /\ InitCall

NextFill == CleanDataThrows \/ CleanDataReturns

SpecFill == InitFill /\ [][NextFill]_vars

----------------------------------------------------------------------------
(* removeDuplicateRows called on its own *)

\* The cells of the grids given to removeDuplicateRows.
DedupCells ==
    {Null, Undefined, NaN, Num(5), Str(<<"5">>), Str(<<>>),
     Bool(TRUE), Str(<<"t", "r", "u", "e">>)}

CallRemoveDuplicateRows ==
    /\ pc = "ready"
    /\ uniqueRows' = removeDuplicateRows(data.rows)
    /\ pc' = "returned"
    /\ UNCHANGED <<data, cleaned, result, pass, firstResult, cellOut>>
    /\ UNCHANGED <<sheet, h, ai>>

InitDedup ==
    /\ \E lens \in Shapes(MaxDedupRows, MaxDedupCells) :
            \E g \in GridsOfShape(lens, DedupCells) : data = Arr(g)
    /\ InitCall

NextDedup == CallRemoveDuplicateRows

SpecDedup == InitDedup /\ [][NextDedup]_vars

----------------------------------------------------------------------------
(* The cell-level functions called on one cell *)

TextAlphabet == {"a", "A", "e_acute", "E_ACUTE", "1", "_", " ", "-"}

Strings(maxLen) == UNION {[1..k -> TextAlphabet] : k \in 0..maxLen}

TextCells ==
    {Str(s) : s \in Strings(MaxLen)} \cup {Null, Undefined, NaN, Num(5), Bool(TRUE)}

\* The cell of the one-cell grid `data`.
TheCell == data.rows[1][1]

CallToTitleCase ==
    /\ pc = "ready"
    /\ cellOut' = toTitleCase(TheCell)
    /\ pc' = "toTitleCase"
    /\ UNCHANGED <<data, cleaned, result, pass, firstResult, uniqueRows>>
    /\ UNCHANGED <<sheet, h, ai>>

CallTrimWhitespace ==
    /\ pc = "ready"
    /\ cellOut' = trimWhitespace(TheCell)
    /\ pc' = "trimWhitespace"
    /\ UNCHANGED <<data, cleaned, result, pass, firstResult, uniqueRows>>
    /\ UNCHANGED <<sheet, h, ai>>

CallNormalizeCasing ==
    /\ pc = "ready"
    /\ cellOut' = normalizeCasing(data.rows)[1][1]
    /\ pc' = "normalizeCasing"
    /\ UNCHANGED <<data, cleaned, result, pass, firstResult, uniqueRows>>
    /\ UNCHANGED <<sheet, h, ai>>

\* normalizeCasing on the one-cell grid that trimWhitespace returned.
CallNormalizeCasingOfTrimmed ==
    /\ pc = "trimWhitespace"
    /\ cellOut' = normalizeCasing(<<<<cellOut>>>>)[1][1]
    /\ pc' = "normalizeCasingOfTrimmed"
    /\ UNCHANGED <<data, cleaned, result, pass, firstResult, uniqueRows>>
    /\ UNCHANGED <<sheet, h, ai>>

InitText ==
    /\ \E c \in TextCells : data = Arr(<<<<c>>>>)
    /\ InitCall

NextText ==
    \/ CallToTitleCase
    \/ CallTrimWhitespace
    \/ CallNormalizeCasing
    \/ CallNormalizeCasingOfTrimmed

SpecText == InitText /\ [][NextText]_vars

----------------------------------------------------------------------------
(* analyzeData (utils/aiAnalyzer.js) *)

AI_SAMPLE_SIZE == 20

\* The fixed texts of parseAIResponse, each written as one token.
NoInsightsText == Str(<<"No insights available from AI analysis.">>)
UnexpectedFormatText == Str(<<"AI response format unexpected.">>)

\* JavaScript truthiness of a value.
Truthy(v) ==
    CASE v.t = "string" -> v.s # <<>>
      [] v.t = "number" -> v.s = <<>> /\ v.n # 0
      [] v.t = "boolean" -> v.n = 1
      [] OTHER -> FALSE

\* parseAIResponse throws a TypeError: choices[0] is null, or content is
\* truthy and has no trim method.
ParseThrows(body) ==
    /\ body.present
    /\ body.choices \in {"nullFirst", "one"}
    /\ \/ body.choices = "nullFirst"
       \/ body.message /\ Truthy(body.content) /\ body.content.t # "string"

\* What parseAIResponse returns when it does not throw.
parseAIResponse(body) ==
    IF ~body.present \/ body.choices \in {"missing", "empty"}
    THEN NoInsightsText
    ELSE IF ~body.message \/ ~Truthy(body.content)
    THEN UnexpectedFormatText
    ELSE Str(Trim(body.content.s))

\* A faulty variant: the error is thrown on.
AnalyzeCatch_rethrow(a) == [a EXCEPT !.pc = "rejected"]

\* The catch block of analyzeData: log, return null.
AnalyzeCatch(a) == [a EXCEPT !.pc = "resolved", !.ret = Null]

\* A faulty variant: the API key is not checked.
AnalyzeReturnsEarly_noKeyCheck(a) ==
    \/ ~a.enabled
    \/ a.arg.kind # "array"
    \/ Len(a.arg.rows) = 0

\* analyzeData returns null before any request: disabled, no API key, or no
\* data.
AnalyzeReturnsEarly(a) ==
    \/ ~a.enabled
    \/ ~a.hasKey
    \/ a.arg.kind # "array"
    \/ Len(a.arg.rows) = 0

Min(a, b) == IF a < b THEN a ELSE b

\* cleanedData.slice(0, AI_SAMPLE_SIZE)
Sample(rows) == SubSeq(rows, 1, Min(AI_SAMPLE_SIZE, Len(rows)))

\* analyzeData from its call to its first await: the early returns, else the
\* request of callAIApi is sent. getApiKey reads the configured key.
AnalyzeDataStart ==
    /\ ai.pc = "called"
    /\ \E key \in BOOLEAN :
        LET a == [ai EXCEPT !.hasKey = key] IN
        ai' = IF AnalyzeReturnsEarly(a)
              THEN [a EXCEPT !.pc = "resolved", !.ret = Null]
              ELSE [a EXCEPT !.pc = "fetch",
                             !.sample = Sample(a.arg.rows),
                             !.requests = a.requests + 1]
    /\ UNCHANGED <<cleanerVars, sheet, h>>

\* fetch settles: it rejects (callAIApi rethrows, analyzeData catches), or it
\* resolves with a response that is ok or not.
FetchSettles ==
    /\ ai.pc = "fetch"
    /\ \/ ai' = AnalyzeCatch([ai EXCEPT !.http = "rejected"])
       \/ ai' = [ai EXCEPT !.pc = "text", !.http = "notOk"]
       \/ ai' = [ai EXCEPT !.pc = "json", !.http = "ok"]
    /\ UNCHANGED <<cleanerVars, sheet, h>>

\* response.text() of a response that is not ok settles: callAIApi throws the
\* API error, or the rejection of text().
TextSettles ==
    /\ ai.pc = "text"
    /\ ai' = AnalyzeCatch(ai)
    /\ UNCHANGED <<cleanerVars, sheet, h>>

\* The bodies response.json() can resolve with.
Bodies ==
    {NoBody}
    \cup {[present |-> TRUE, choices |-> c, message |-> FALSE, content |-> Undefined] :
            c \in {"missing", "empty", "nullFirst", "one"}}
    \cup {[present |-> TRUE, choices |-> "one", message |-> TRUE, content |-> v] :
            v \in {Undefined, Null, Str(<<>>), Str(<<" ">>), Str(<<" ", "a">>), Num(5)}}

\* response.json() settles: it rejects, or it resolves with a body that
\* parseAIResponse reads.
JsonSettles ==
    /\ ai.pc = "json"
    /\ \/ ai' = AnalyzeCatch([ai EXCEPT !.http = "badJson"])
       \/ \E body \in Bodies :
            LET a == [ai EXCEPT !.body = body] IN
            ai' = IF ParseThrows(body)
                  THEN AnalyzeCatch(a)
                  ELSE [a EXCEPT !.pc = "resolved", !.ret = parseAIResponse(body)]
    /\ UNCHANGED <<cleanerVars, sheet, h>>

\* The grids given to analyzeData: none, no rows, one or two rows of one
\* cell, more rows than the sample takes.
AIGrids ==
    {NullData, Arr([i \in 1..(AI_SAMPLE_SIZE + 1) |-> <<Num(i)>>])}
    \cup {Arr(g) : g \in UNION {[1..k -> {<<Str(<<"A">>)>>, <<Str(<<"N", "/", "A">>)>>, <<NaN>>}] :
                                    k \in 0..2}}

InitAI ==
    /\ data = NullData
    /\ pc = "ready"
    /\ cleaned = NoSteps
    /\ result = NoResult
    /\ pass = 1
    /\ firstResult = NoResult
    /\ uniqueRows = <<>>
    /\ cellOut = Null
    /\ sheet = NoSheet
    /\ h = IdleHandler
    /\ \E enabled \in BOOLEAN, arg \in AIGrids :
            ai = [IdleAI EXCEPT !.pc = "called", !.enabled = enabled, !.arg = arg]

NextAI == AnalyzeDataStart \/ FetchSettles \/ TextSettles \/ JsonSettles

SpecAI == InitAI /\ [][NextAI]_vars

----------------------------------------------------------------------------
(* handleCleanData: the click handler of the task pane, and the Excel        *)
(* utilities it awaits.  The selected range is the sheet: `values` are its   *)
(* cells now, `before` its cells when the button was clicked.                *)

MaxSheetRows == 3
MaxSheetCols == 2

\* The cells of the selected range: an empty cell and a text.
SheetCells == {Str(<<>>), Str(<<" ", "a">>)}

\* range.values: a rectangle of at least one cell.
Sheets ==
    UNION {[1..n -> [1..c -> SheetCells]] :
            n \in 1..MaxSheetRows, c \in 1..MaxSheetCols}

\* !rawData || rawData.length === 0
NoDataRead(d) == d.kind # "array" \/ Len(d.rows) = 0

\* A faulty variant: the button stays disabled.
HandlerCatch_keepsDisabled(hh, err) ==
    [hh EXCEPT !.status = "error", !.error = err, !.pc = "done"]

\* The catch block and the finally block of handleCleanData: the error is
\* shown, the button is enabled again.
HandlerCatch(hh, err) ==
    [hh EXCEPT !.status = "error", !.error = err, !.disabled = FALSE,
               !.pc = "done"]

\* Step 8 and the finally block: the success message with the insights, or
\* with the note that the analysis is not available; the button is enabled
\* again.
HandlerSucceeds(hh, insights) ==
    [hh EXCEPT !.aiInsights = insights,
               !.aiNote = IF Truthy(insights) THEN "insights"
                          ELSE IF hh.aiEnabled THEN "notAvailable"
                          ELSE "none",
               !.status = "success",
               !.disabled = FALSE,
               !.pc = "done"]

\* A faulty variant: the analysis is given the grid as read.
AIArgument_raw(hh) == hh.raw

\* The grid given to analyzeData.
AIArgument(hh) == Arr(hh.res.cleanedData)

\* A faulty variant: the rows of the range below the block are cleared.
WriteBlock_wholeRange(values, d) ==
    [r \in 1..Len(values) |->
        [c \in 1..Len(values[r]) |->
            IF r <= Len(d) /\ c <= Len(d[1]) THEN d[r][c] ELSE Str(<<>>)]]

\* newRange.values = data, newRange being the block of data.length rows and
\* data[0].length columns at the top-left cell of the range.
WriteBlock(values, d) ==
    [r \in 1..Len(values) |->
        [c \in 1..Len(values[r]) |->
            IF r <= Len(d) /\ c <= Len(d[1]) THEN d[r][c] ELSE values[r][c]]]

\* The click: the button is disabled, getSelectedRange is called.
HandleCleanData ==
    /\ h.pc = "idle"
    /\ ~h.disabled
    /\ h' = [h EXCEPT !.disabled = TRUE,
                      !.status = "info",
                      !.calls = <<"getSelectedRange">>,
                      !.pc = "getSelectedRange"]
    /\ UNCHANGED <<cleanerVars, sheet, ai>>

\* getSelectedRange settles: with the range, with the error of no selection,
\* or with an error of Excel.  Then getRangeAddress is called.
GetSelectedRangeSettles ==
    /\ h.pc = "getSelectedRange"
    /\ \E outcome \in {"range", "noSelection", "getSelectedRange"} :
        h' = IF outcome = "range"
             THEN [h EXCEPT !.calls = Append(@, "getRangeAddress"),
                            !.pc = "getRangeAddress"]
             ELSE HandlerCatch(h, outcome)
    /\ UNCHANGED <<cleanerVars, sheet, ai>>

\* getRangeAddress settles; then readRangeData is called.
GetRangeAddressSettles ==
    /\ h.pc = "getRangeAddress"
    /\ \E synced \in BOOLEAN :
        h' = IF synced
             THEN [h EXCEPT !.calls = Append(@, "readRangeData"),
                            !.pc = "readRangeData"]
             ELSE HandlerCatch(h, "getRangeAddress")
    /\ UNCHANGED <<cleanerVars, sheet, ai>>

\* readRangeData settles with the values of the range (or with nothing, or
\* with no rows), or it rejects.  Then the data is checked and cleaned, and
\* writeRangeData is called.
ReadRangeDataSettles ==
    /\ h.pc = "readRangeData"
    /\ \/ h' = HandlerCatch(h, "readRangeData")
       \/ \E read \in {Arr(sheet.values), NullData, Arr(<<>>)} :
            LET hr == [h EXCEPT !.raw = read]
                hc == [hr EXCEPT !.calls = Append(@, "cleanData")]
            IN h' = IF NoDataRead(read)
                    THEN HandlerCatch(hr, "noData")
                    ELSE IF ~h.hasCleanData \/ IsInvalidInput(read)
                    THEN HandlerCatch(hc, "cleanData")
                    ELSE [hc EXCEPT
                            !.res = MakeResult(read.rows, CleanSteps(read.rows)),
                            !.calls = Append(@, "writeRangeData"),
                            !.pc = "writeRangeData"]
    /\ UNCHANGED <<cleanerVars, sheet, ai>>

\* writeRangeData settles: it throws on empty data, else the block is
\* written, unless Excel fails.  Then formatHeaderRow is called.
WriteRangeDataSettles ==
    /\ h.pc = "writeRangeData"
    /\ LET d == h.res.cleanedData
           rowCount == Len(d)
           colCount == IF Len(d) > 0 THEN Len(d[1]) ELSE 0
       IN IF rowCount = 0 \/ colCount = 0
          THEN /\ h' = HandlerCatch(h, "writeEmpty")
               /\ sheet' = sheet
          ELSE \/ /\ h' = HandlerCatch(h, "writeRangeData")
                  /\ sheet' = sheet
               \/ /\ sheet' = [sheet EXCEPT !.values = WriteBlock(@, d)]
                  /\ h' = [h EXCEPT !.calls = Append(@, "formatHeaderRow"),
                                    !.pc = "formatHeaderRow"]
    /\ UNCHANGED <<cleanerVars, ai>>

\* formatHeaderRow settles: the row of headerRowIndex is formatted, unless
\* Excel fails.  Then autoFitColumns is called.
FormatHeaderRowSettles ==
    /\ h.pc = "formatHeaderRow"
    /\ \/ /\ h' = HandlerCatch(h, "formatHeaderRow")
          /\ sheet' = sheet
       \/ /\ sheet' = [sheet EXCEPT !.header = h.res.headerRowIndex]
          /\ h' = [h EXCEPT !.calls = Append(@, "autoFitColumns"),
                            !.pc = "autoFitColumns"]
    /\ UNCHANGED <<cleanerVars, ai>>

\* autoFitColumns settles.  Then the toggle is read: with the analysis
\* switched on analyzeData is called with enabled = true, and an error thrown
\* by the call is caught; else the run ends with the success message.
AutoFitColumnsSettles ==
    /\ h.pc = "autoFitColumns"
    /\ \/ /\ h' = HandlerCatch(h, "autoFitColumns")
          /\ UNCHANGED <<sheet, ai>>
       \/ /\ sheet' = [sheet EXCEPT !.fitted = TRUE]
          /\ \E aiToggle \in {"missing", "unchecked", "checked"} :
                LET hh == [h EXCEPT !.aiEnabled = (aiToggle = "checked")]
                    hc == [hh EXCEPT !.calls = Append(@, "analyzeData")]
                IN IF ~hh.aiEnabled
                   THEN /\ h' = HandlerSucceeds(hh, Null)
                        /\ ai' = ai
                   ELSE IF ~h.hasAnalyzeData
                   THEN /\ h' = HandlerSucceeds(hc, Null)
                        /\ ai' = ai
                   ELSE /\ h' = [hc EXCEPT !.pc = "analyzeData"]
                        /\ ai' = [IdleAI EXCEPT !.pc = "called",
                                                !.enabled = TRUE,
                                                !.arg = AIArgument(hh)]
    /\ UNCHANGED cleanerVars

\* analyzeData settles: what it resolves with are the insights; a rejection
\* is caught and the insights stay null.  The run ends with the success
\* message.
AnalyzeDataSettles ==
    /\ h.pc = "analyzeData"
    /\ ai.pc \in {"resolved", "rejected"}
    /\ h' = HandlerSucceeds(h, IF ai.pc = "resolved" THEN ai.ret ELSE Null)
    /\ UNCHANGED <<cleanerVars, sheet, ai>>

\* The task pane is loaded, with or without the scripts of the cleaner and
\* of the analyzer, and a range of the sheet is selected.
InitHandler ==
    /\ data = NullData
    /\ pc = "ready"
    /\ cleaned = NoSteps
    /\ result = NoResult
    /\ pass = 1
    /\ firstResult = NoResult
    /\ uniqueRows = <<>>
    /\ cellOut = Null
    /\ \E values \in Sheets :
            sheet = [NoSheet EXCEPT !.values = values, !.before = values]
    /\ \E hasCleanData \in BOOLEAN, hasAnalyzeData \in BOOLEAN :
            h = [IdleHandler EXCEPT !.hasCleanData = hasCleanData,
                                    !.hasAnalyzeData = hasAnalyzeData]
    /\ ai = IdleAI

NextHandler ==
    \/ HandleCleanData
    \/ GetSelectedRangeSettles
    \/ GetRangeAddressSettles
    \/ ReadRangeDataSettles
    \/ WriteRangeDataSettles
    \/ FormatHeaderRowSettles
    \/ AutoFitColumnsSettles
    \/ AnalyzeDataStart
    \/ FetchSettles
    \/ TextSettles
    \/ JsonSettles
    \/ AnalyzeDataSettles

SpecHandler == InitHandler /\ [][NextHandler]_vars

----------------------------------------------------------------------------
(* Properties *)

\* A cell that is null, undefined or a string of white space only.
Blank(c) ==
    \/ c.t \in {"null", "undefined"}
    \/ c.t = "string" /\ \A i \in 1..Len(c.s) : IsWhiteSpace(c.s[i])

BlankRow(row) == \A j \in 1..Len(row) : Blank(row[j])

\* A row with every string trimmed and title-cased.
NormCell(c) == IF c.t = "string" THEN toTitleCase(trimWhitespace(c)) ELSE c
NormRow(row) == [j \in 1..Len(row) |-> NormCell(row[j])]

Placeholder == Str(<<"N", "/", "A">>)

\* row with its blank cells replaced by "N/A".
Filled(row) == [j \in 1..Len(row) |-> IF Blank(row[j]) THEN Placeholder ELSE row[j]]

DistinctSerializations(grid) ==
    \A i, j \in 1..Len(grid) :
        i # j => JSONstringify(grid[i]) # JSONstringify(grid[j])

Returned == pc = "returned" /\ result.has

\* C1: a returned result has cleanedRowCount = the number of rows of
\* cleanedData, cleanedRowCount <= originalRowCount, originalRowCount = the
\* number of rows of the input, and headerRowIndex < cleanedRowCount whenever
\* cleanedRowCount > 0.
C1_ResultCounts ==
    Returned =>
        /\ result.cleanedRowCount = Len(result.cleanedData)
        /\ result.cleanedRowCount <= result.originalRowCount
        /\ result.originalRowCount = Len(data.rows)
        /\ result.headerRowIndex >= 0
        /\ result.cleanedRowCount > 0 =>
                result.headerRowIndex < result.cleanedRowCount

\* C1's case: rows were removed and rows remain.
C1_Witness ==
    /\ Returned
    /\ pass = 1
    /\ 0 < result.cleanedRowCount
    /\ result.cleanedRowCount < result.originalRowCount

\* C2: no cell of cleanedData is blank; every row of cleanedData is a
\* trimmed, title-cased input row in which the blank cells are exactly "N/A"
\* and the other cells are kept.
C2_NoEmptyCells ==
    Returned =>
        LET out == result.cleanedData IN
        /\ \A i \in 1..Len(out) : \A j \in 1..Len(out[i]) : ~Blank(out[i][j])
        /\ \A i \in 1..Len(out) :
                \E k \in 1..Len(data.rows) :
                    /\ ~BlankRow(data.rows[k])
                    /\ out[i] = Filled(NormRow(data.rows[k]))

\* C2's case: a surviving row with a blank cell and a cell changed by
\* trimming and casing.
C2_Witness ==
    /\ Returned
    /\ data.rows = <<<<Str(<<" ", "a">>), Undefined>>, <<Str(<<" ">>), Null>>>>
    /\ result.cleanedData = <<<<Str(<<"A">>), Placeholder>>>>

\* C3: the grid held after removeDuplicateRows and removeEmptyRows has
\* pairwise distinct row serializations, and two rows of cleanedData with the
\* same serialization come from two such rows that differ, one of them with a
\* blank cell.
C3_NoDuplicateRows ==
    Returned =>
        LET out == result.cleanedData
            kept == cleaned.nonEmpty
        IN /\ DistinctSerializations(kept)
           /\ Len(out) = Len(kept)
           /\ \A i, j \in 1..Len(out) :
                (i # j /\ JSONstringify(out[i]) = JSONstringify(out[j])) =>
                    /\ JSONstringify(kept[i]) # JSONstringify(kept[j])
                    /\ out[i] = Filled(kept[i])
                    /\ out[j] = Filled(kept[j])
                    /\ \E c \in 1..Len(kept[i]) : Blank(kept[i][c]) \/ Blank(kept[j][c])

\* C3's case: two rows were kept, and placeholders made them identical.
C3_Witness ==
    /\ Returned
    /\ pass = 1
    /\ Len(result.cleanedData) = 2
    /\ result.cleanedData[1] = result.cleanedData[2]

\* The rows of grid whose serialization no earlier row has, in order.
FirstOccurrences(grid) ==
    LET First(k) == \A j \in 1..(k - 1) :
                        JSONstringify(grid[j]) # JSONstringify(grid[k])
        idx == SelectSeq([i \in 1..Len(grid) |-> i], First)
    IN [n \in 1..Len(idx) |-> grid[idx[n]]]

\* C4: removeDuplicateRows returns the first occurrence of each distinct row,
\* in input order, unaltered.
C4_FirstOccurrenceKept ==
    pc = "returned" => uniqueRows = FirstOccurrences(data.rows)

\* C4's case: the third row repeats the first, and a different row lies
\* between them.
C4_Witness ==
    /\ pc = "returned"
    /\ Len(data.rows) = 3
    /\ JSONstringify(data.rows[1]) = JSONstringify(data.rows[3])
    /\ JSONstringify(data.rows[1]) # JSONstringify(data.rows[2])
    /\ uniqueRows = <<data.rows[1], data.rows[2]>>

\* The kind of a cell: Text, Number, Boolean or Empty.
CellKind(c) ==
    CASE c.t = "string" -> "Text"
      [] c.t = "number" -> "Number"
      [] c.t = "boolean" -> "Boolean"
      [] OTHER -> "Empty"

SameCell(c, d) ==
    /\ CellKind(c) = CellKind(d)
    /\ CellKind(c) # "Empty" => c = d

SameRow(r, q) ==
    /\ Len(r) = Len(q)
    /\ \A j \in 1..Len(r) : SameCell(r[j], q[j])

\* C5: removeDuplicateRows treats two rows as duplicates iff they have the
\* same length and their cells have pairwise the same kind and value.
C5_DuplicateIffSameKindAndValue ==
    (pc = "returned" /\ Len(data.rows) = 2) =>
        (Len(uniqueRows) = 1 <=> SameRow(data.rows[1], data.rows[2]))

\* C6: input rows that are equal after trimming and title-casing give at
\* most one row: each trimmed, title-cased input row occurs at most once
\* after duplicate removal, and cleanedData has at most as many rows as there
\* are distinct trimmed, title-cased input rows.
C6_NormalizedBeforeDedup ==
    Returned =>
        LET norm == {NormRow(data.rows[i]) : i \in 1..Len(data.rows)} IN
        /\ Len(result.cleanedData) <= Cardinality(norm)
        /\ \A r \in norm :
                Cardinality({k \in 1..Len(cleaned.deduped) :
                                cleaned.deduped[k] = r}) <= 1

\* C6's case: two rows that differ only in white space and letter case.
C6_Witness ==
    /\ Returned
    /\ pass = 1
    /\ Len(data.rows) = 2
    /\ data.rows[1] # data.rows[2]
    /\ NormRow(data.rows[1]) = NormRow(data.rows[2])
    /\ ~BlankRow(data.rows[1])
    /\ Len(result.cleanedData) = 1

\* C7: cleanedRowCount is the number of distinct serializations of the
\* trimmed, title-cased input rows that have a cell that is not blank.
C7_CountOfDistinctNonEmptyRows ==
    Returned =>
        result.cleanedRowCount =
            Cardinality({JSONstringify(NormRow(data.rows[i])) :
                            i \in {k \in 1..Len(data.rows) :
                                        ~BlankRow(data.rows[k])}})

NoBlankCell(grid) ==
    \A i \in 1..Len(grid) : \A j \in 1..Len(grid[i]) : ~Blank(grid[i][j])

SecondCallOver == pass = 2 /\ pc # "ready"

\* C8 as stated: when the first cleanedData has no blank cell and no two rows
\* with the same serialization, the second call returns the same cleanedData.
C8_Idempotent ==
    (/\ SecondCallOver
     /\ NoBlankCell(firstResult.cleanedData)
     /\ DistinctSerializations(firstResult.cleanedData)) =>
        /\ Returned
        /\ result.cleanedData = firstResult.cleanedData

\* C8 amended: ... and has at least one row ...
C8_IdempotentNonEmpty ==
    (/\ SecondCallOver
     /\ firstResult.cleanedRowCount > 0
     /\ NoBlankCell(firstResult.cleanedData)
     /\ DistinctSerializations(firstResult.cleanedData)) =>
        /\ Returned
        /\ result.cleanedData = firstResult.cleanedData

\* C8's case: a second call on two distinct rows, one with a placeholder.
C8_Witness ==
    /\ SecondCallOver
    /\ Len(firstResult.cleanedData) = 2
    /\ DistinctSerializations(firstResult.cleanedData)
    /\ \E i \in 1..2 : \E j \in 1..Len(firstResult.cleanedData[i]) :
            firstResult.cleanedData[i][j] = Placeholder
    /\ result.cleanedData = firstResult.cleanedData

\* C9: cleanData throws, returning nothing, iff the grid is absent or has no
\* rows; for every other grid it returns a result.
C9_ThrowsIffAbsentOrNoRows ==
    pc # "ready" =>
        /\ pc \in {"threw", "returned"}
        /\ pc = "threw" <=> (data.kind \in {"null", "undefined"} \/ Len(data.rows) = 0)
        /\ pc = "threw" => ~result.has
        /\ pc = "returned" => result.has

\* C9's case: a result for a grid of rows of different lengths, one of no
\* cells, all of them empty.
C9_Witness ==
    /\ Returned
    /\ pass = 1
    /\ \E i, j \in 1..Len(data.rows) :
            Len(data.rows[i]) = 0 /\ Len(data.rows[j]) = 2
    /\ \A i \in 1..Len(data.rows) : BlankRow(data.rows[i])

\* Letters and word characters, Unicode-aware.
IsLetter(c) == c \in {"a", "A", "n", "N", "e_acute", "E_ACUTE"}
IsWordCharacter(c) == IsLetter(c) \/ c \in Digits \/ c = "_"

\* s in lower case, with the first character of each maximal run of word
\* characters in upper case when it is a letter.
TitleCased(s) ==
    LET low == [i \in 1..Len(s) |-> toLowerCaseChar(s[i])] IN
    [i \in 1..Len(s) |->
        IF /\ IsLetter(low[i])
           /\ (i = 1 \/ ~IsWordCharacter(low[i - 1]))
        THEN toUpperCaseChar(low[i])
        ELSE low[i]]

\* C10: toTitleCase of a non-empty string is the string in lower case with
\* the first letter of each maximal run of word characters in upper case;
\* normalizeCasing leaves empty strings and cells that are no strings alone.
C10_TitleCase ==
    /\ (pc = "toTitleCase" /\ TheCell.t = "string" /\ TheCell.s # <<>>) =>
            cellOut = Str(TitleCased(TheCell.s))
    /\ (pc = "normalizeCasing" /\ (TheCell.t # "string" \/ TheCell.s = <<>>)) =>
            cellOut = TheCell

\* C11 as stated: normalizeCasing of the trimmed string is normalizeCasing of
\* the string itself.
C11_TrimStable ==
    (pc = "normalizeCasingOfTrimmed" /\ TheCell.t = "string") =>
        cellOut = normalizeCasing(data.rows)[1][1]

\* C11 amended: normalizeCasing of the trimmed string is the trimmed
\* normalizeCasing of the string (trimming and casing commute).
C11_TrimCommutes ==
    (pc = "normalizeCasingOfTrimmed" /\ TheCell.t = "string") =>
        cellOut = trimWhitespace(normalizeCasing(data.rows)[1][1])

\* C11's case: a string with white space before a lower-case word.
C11_Witness ==
    /\ pc = "normalizeCasingOfTrimmed"
    /\ TheCell = Str(<<" ", "a", " ">>)
    /\ cellOut = Str(<<"A">>)

\* Rows a and b of the same length that differ, and only where one holds
\* null and the other the empty string or "N/A", each with a cell that is not
\* blank.
DifferByPlaceholder(a, b) ==
    /\ Len(a) = Len(b)
    /\ a # b
    /\ \A p \in 1..Len(a) :
            \/ a[p] = b[p]
            \/ a[p] = Null /\ b[p] \in {Str(<<>>), Placeholder}
            \/ b[p] = Null /\ a[p] \in {Str(<<>>), Placeholder}
    /\ ~BlankRow(a)
    /\ ~BlankRow(b)

\* C15: two input rows that, trimmed and title-cased, differ only by null
\* against the empty string or "N/A" both survive: cleanedData holds their
\* common filled row at least twice.
C15_NeverMerged ==
    Returned =>
        \A i, j \in 1..Len(data.rows) :
            DifferByPlaceholder(NormRow(data.rows[i]), NormRow(data.rows[j])) =>
                Cardinality({k \in 1..Len(result.cleanedData) :
                    result.cleanedData[k] = Filled(NormRow(data.rows[i]))}) >= 2

\* C16: headerRowIndex is 0, and the first row of cleanedData, when there is
\* one, is not fully empty.
C16_HeaderIsFirstRow ==
    Returned =>
        /\ result.headerRowIndex = 0
        /\ Len(result.cleanedData) > 0 => ~BlankRow(result.cleanedData[1])

\* C16's case: the first input row is empty and is removed; the second is
\* the header.
C16_Witness ==
    /\ Returned
    /\ pass = 1
    /\ Len(data.rows) = 2
    /\ Len(data.rows[1]) > 0
    /\ BlankRow(data.rows[1])
    /\ Len(result.cleanedData) = 1
    /\ result.headerRowIndex = 0

AIResolved == ai.pc = "resolved"

AIStarted == ai.pc \notin {"idle", "called"}

AINoData == ai.arg.kind # "array" \/ Len(ai.arg.rows) = 0

\* The JSON body was read, and it has no choices.
AINoChoices ==
    /\ ai.http = "ok"
    /\ ~ai.body.present \/ ai.body.choices \in {"missing", "empty"}

\* The JSON body was read, and its first choice has no message content.
AINoContent ==
    /\ ai.http = "ok"
    /\ ai.body.present
    /\ ai.body.choices = "one"
    /\ ~ai.body.message \/ ~Truthy(ai.body.content)

Invoked(name) == \E i \in 1..Len(h.calls) : h.calls[i] = name

\* The first rows of the sheet hold the cleaned grid.
CleanedGridOnSheet ==
    /\ Len(h.res.cleanedData) <= Len(sheet.values)
    /\ \A r \in 1..Len(h.res.cleanedData) : sheet.values[r] = h.res.cleanedData[r]

\* C13: analyzeData is invoked only after the cleaned data was written, the
\* header row formatted and the columns fitted; it is given the cleaned grid;
\* whatever it does, the run ends with a success status; and no step between
\* its call and the end of the run changes the sheet.
C13_AINeverAffectsOutcome ==
    /\ [](Invoked("analyzeData") =>
            /\ h.calls = <<"getSelectedRange", "getRangeAddress", "readRangeData",
                           "cleanData", "writeRangeData", "formatHeaderRow",
                           "autoFitColumns", "analyzeData">>
            /\ CleanedGridOnSheet
            /\ sheet.header = h.res.headerRowIndex
            /\ sheet.fitted
            /\ h.pc \in {"analyzeData", "done"}
            /\ ai.pc # "idle" => ai.arg = Arr(h.res.cleanedData)
            /\ ai.arg # h.raw
            /\ h.pc = "done" => h.status = "success" /\ h.error = "none")
    /\ [][h.pc = "analyzeData" => sheet' = sheet]_vars

\* C13's case: the analysis was given a grid that differs from the raw grid,
\* it resolved with insights, and the run has ended.
C13_Witness ==
    /\ Invoked("analyzeData")
    /\ h.pc = "done"
    /\ ai.pc = "resolved"
    /\ ai.requests = 1
    /\ h.aiNote = "insights"
    /\ h.raw # Arr(h.res.cleanedData)

\* C14: when getting the selection fails, when the data read is absent or
\* has no rows, or when cleanData throws, then none of writeRangeData,
\* formatHeaderRow, autoFitColumns and analyzeData was invoked, the sheet is
\* as it was, the status is an error and the button is enabled.
C14_FailsFast ==
    h.error \in {"noSelection", "getSelectedRange", "noData", "cleanData"} =>
        /\ ~Invoked("writeRangeData")
        /\ ~Invoked("formatHeaderRow")
        /\ ~Invoked("autoFitColumns")
        /\ ~Invoked("analyzeData")
        /\ ai.pc = "idle"
        /\ sheet.values = sheet.before
        /\ sheet.header = -1
        /\ ~sheet.fitted
        /\ h.pc = "done"
        /\ h.status = "error"
        /\ ~h.disabled

\* C14's case: the range was read with no rows and the run has ended.
C14_Witness ==
    /\ h.error = "noData"
    /\ h.raw = Arr(<<>>)
    /\ h.pc = "done"
    /\ Invoked("readRangeData")

\* The run ended with success, on n rows of which m are left, 0 < m < n.
FewerRowsWritten ==
    /\ h.pc = "done"
    /\ h.status = "success"
    /\ 0 < h.res.cleanedRowCount
    /\ h.res.cleanedRowCount < Len(sheet.before)

\* C17: after a successful run that leaves m of n rows, 0 < m < n, the first
\* m rows of the range hold the cleaned rows, in the columns of the first
\* cleaned row, and the rows below hold what they held before the run.
C17_OnlyFirstRowsOverwritten ==
    FewerRowsWritten =>
        /\ Len(sheet.values) = Len(sheet.before)
        /\ h.res.originalRowCount = Len(sheet.before)
        /\ \A r \in 1..Len(sheet.before) :
            /\ Len(sheet.values[r]) = Len(sheet.before[r])
            /\ \A c \in 1..Len(sheet.before[r]) :
                sheet.values[r][c] =
                    IF r <= h.res.cleanedRowCount /\ c <= Len(h.res.cleanedData[1])
                    THEN h.res.cleanedData[r][c]
                    ELSE sheet.before[r][c]

\* C17's case: a row that was removed as a duplicate is still on the sheet,
\* below the cleaned block, and the block differs from what was there.
C17_Witness ==
    /\ FewerRowsWritten
    /\ h.res.cleanedRowCount = 2
    /\ Len(sheet.before) = 3
    /\ sheet.before[3] = sheet.before[1]
    /\ sheet.values[3] = sheet.before[3]
    /\ sheet.values[1] # sheet.before[1]
    /\ ~BlankRow(sheet.values[3])

====
